---- MODULE Spec2Model ----
(***************************************************************************)
(* Model of the dendrite-p2p-demo bootstrap: the two main() functions      *)
(* (src/unnamed/part_000, which keeps the node identity in a file, and     *)
(* src/main.go, which generates a fresh key at every start), the identity  *)
(* file they share with the environment, the sequential component          *)
(* assembly, the route table registered on the default mux, and the two    *)
(* listener goroutines.                                                    *)
(***************************************************************************)
EXTENDS Integers, Sequences, FiniteSets, TLC

VARIABLES
    file,       \* the identity file: [exists, content]
    pc,         \* position of the main goroutine
    statRes,    \* outcome of os.Stat in this run: "none", "NotExist", "ok"
    privKey,    \* the local privKey (part_000) / generated key (main.go)
    cfgKey,     \* cfg.Matrix.PrivateKey
    log,        \* warnings printed by this run
    idSrc,      \* how this run obtained its key
    readRes,    \* what ioutil.ReadFile returned in this run: [done, err, data]
    wrote,      \* the WriteFile call of this run
    prev,       \* what the previous run read and used as its key, kept
                \* while this run loads its identity and builds its config
    next,       \* index of the next assembly step
    handle,     \* handle -> index of the step that assigned it (0: unassigned)
    received,   \* step index -> the handles it was passed, with their producers
    assigns,    \* handle -> number of assignments in this run
    libp2p,     \* base.LibP2P: "unset", "nil" or "host"
    mux,        \* http.DefaultServeMux: set of [pattern, handler, cors]
    launched,   \* the listener goroutines started by a go statement
    cl,         \* position of the clearnet listener goroutine
    ov,         \* position of the overlay listener goroutine
    exitCause,  \* why the process terminated
    resp        \* the request being served and the handler it was routed to

vars == <<file, pc, statRes, privKey, cfgKey, log, idSrc, readRes, wrote, prev,
          next, handle, received, assigns, libp2p, mux, launched, cl, ov,
          exitCause, resp>>

procVars == <<pc, statRes, privKey, cfgKey, log, idSrc, readRes, wrote, prev,
              next, handle, received, assigns, libp2p, mux, launched, cl, ov,
              exitCause, resp>>

idVars == <<statRes, privKey, cfgKey, log, idSrc, readRes, wrote>>
asmVars == <<next, handle, received, assigns, libp2p>>
srvVars == <<mux, launched, cl, ov, exitCause, resp>>

(***************************************************************************)
(* Bounds                                                                  *)
(***************************************************************************)
NumKeys == 2
MaxPathLen == 2

(***************************************************************************)
(* Keys and the identity file                                              *)
(***************************************************************************)
PrivateKeySize == 64

\* A byte string is modelled by its length and an identifier of its bytes.
Nil == [len |-> 0, id |-> 0]
Keys == {[len |-> PrivateKeySize, id |-> i] : i \in 1..NumKeys}
Content == Keys \cup {Nil}

\* The public key is the second half of an ed25519 private key.
Public(k) == IF k.len = PrivateKeySize THEN k.id ELSE 0

\* 0600: read and write for the owner, nothing for anyone else.
FilePerm == {"ur", "uw"}
NoFile == [exists |-> FALSE, content |-> Nil]
FileStates == {NoFile} \cup {[exists |-> TRUE, content |-> c] : c \in Content}

Intact(c) == c.len = PrivateKeySize

NoRead == [done |-> FALSE, err |-> FALSE, data |-> Nil]
NoWrite == [attempted |-> FALSE, key |-> Nil, perm |-> {}, ok |-> FALSE]
NoPrev == [read |-> NoRead, key |-> Nil, src |-> "none"]

(***************************************************************************)
(* Component assembly: the statements of main() in program order, with the *)
(* handles each one is passed and the handles it assigns.                  *)
(***************************************************************************)
Steps == <<"config", "base", "accountDB", "deviceDB", "keyDB", "federation",
           "keyRing", "roomserver", "typing", "appservice", "fedSender",
           "clientapi", "federationapi", "mediaapi", "publicroomsapi",
           "syncapi">>

NSteps == Len(Steps)

Handles == {"cfg", "base", "accountDB", "deviceDB", "keyDB", "federation",
            "keyRing", "alias", "input", "query", "typingInputAPI", "asQuery",
            "fedSenderAPI"}

\* Mutant: the app-service bridge is set up before the room server.
StepAtSwapped(i) ==
    IF Steps[i] = "roomserver" THEN "appservice"
    ELSE IF Steps[i] = "appservice" THEN "roomserver"
    ELSE Steps[i]

StepAt(i) == Steps[i]

Uses(s) ==
    CASE s = "config" -> {}
      [] s = "base" -> {"cfg"}
      [] s = "accountDB" -> {"base"}
      [] s = "deviceDB" -> {"base"}
      [] s = "keyDB" -> {"base"}
      [] s = "federation" -> {"base"}
      [] s = "keyRing" -> {"federation", "keyDB"}
      [] s = "roomserver" -> {"base"}
      [] s = "typing" -> {"base"}
      [] s = "appservice" ->
            {"base", "accountDB", "deviceDB", "federation", "alias", "query"}
      [] s = "fedSender" -> {"base", "federation", "query"}
      [] s = "clientapi" ->
            {"base", "deviceDB", "accountDB", "federation", "keyRing", "alias",
             "input", "query", "typingInputAPI", "asQuery", "fedSenderAPI"}
      [] s = "federationapi" ->
            {"base", "accountDB", "deviceDB", "federation", "keyRing", "alias",
             "input", "query", "asQuery", "fedSenderAPI"}
      [] s = "mediaapi" -> {"base", "deviceDB"}
      [] s = "publicroomsapi" -> {"base", "deviceDB", "query"}
      [] s = "syncapi" ->
            {"base", "deviceDB", "accountDB", "query", "federation", "cfg"}

Produces(s) ==
    CASE s = "config" -> {"cfg"}
      [] s = "base" -> {"base"}
      [] s = "accountDB" -> {"accountDB"}
      [] s = "deviceDB" -> {"deviceDB"}
      [] s = "keyDB" -> {"keyDB"}
      [] s = "federation" -> {"federation"}
      [] s = "keyRing" -> {"keyRing"}
      [] s = "roomserver" -> {"alias", "input", "query"}
      [] s = "typing" -> {"typingInputAPI"}
      [] s = "appservice" -> {"asQuery"}
      [] s = "fedSender" -> {"fedSenderAPI"}
      [] OTHER -> {}

NoHandles == [h \in Handles |-> 0]
NoReceived == [i \in 1..NSteps |-> {}]

\* Statement i runs: it reads the handles it is passed and assigns its results.
RunStep(i) ==
    /\ received' = [received EXCEPT
                      ![i] = {<<h, handle[h]>> : h \in Uses(StepAt(i))}]
    /\ handle' = [h \in Handles |->
                    IF h \in Produces(StepAt(i)) THEN i ELSE handle[h]]
    /\ assigns' = [h \in Handles |->
                    IF h \in Produces(StepAt(i)) THEN assigns[h] + 1 ELSE assigns[h]]
    /\ next' = i + 1

(***************************************************************************)
(* Request routing: net/http's ServeMux over the registered patterns.      *)
(* A path is the sequence of its segments: "/" is <<"">>, "/metrics" is    *)
(* <<"metrics">>, "/x/" is <<"x", "">>, "//metrics" is <<"", "metrics">>.  *)
(***************************************************************************)
Seg == {"", "..", "metrics", "x"}
Methods == {"GET", "CONNECT"}
Transports == {"clearnet", "overlay"}

RECURSIVE PathsOfLen(_)
PathsOfLen(n) ==
    IF n = 0 THEN {<<>>}
    ELSE {Append(p, s) : p \in PathsOfLen(n - 1), s \in Seg}

Paths == UNION {PathsOfLen(n) : n \in 1..MaxPathLen}

Root == <<"">>
MetricsPattern == <<"metrics">>

RECURSIVE CleanSegs(_, _)
CleanSegs(p, acc) ==
    IF p = <<>> THEN acc
    ELSE IF Head(p) = "" THEN CleanSegs(Tail(p), acc)
    ELSE IF Head(p) = ".." THEN
        CleanSegs(Tail(p), IF acc = <<>> THEN acc ELSE SubSeq(acc, 1, Len(acc) - 1))
    ELSE CleanSegs(Tail(p), Append(acc, Head(p)))

\* net/http cleanPath: path.Clean, with the trailing slash put back.
CleanPath(p) ==
    LET c == CleanSegs(p, <<>>)
        np == IF c = <<>> THEN Root ELSE c
    IN IF p[Len(p)] = "" /\ np # Root THEN Append(np, "") ELSE np

IsPrefixPattern(pat, p) ==
    /\ pat[Len(pat)] = ""
    /\ Len(pat) - 1 <= Len(p)
    /\ SubSeq(p, 1, Len(pat) - 1) = SubSeq(pat, 1, Len(pat) - 1)

NotFound == [handler |-> "notfound", cors |-> FALSE]
Redirect == [handler |-> "redirect", cors |-> FALSE]

\* ServeMux.handler: an exact match, else the longest pattern ending in "/".
MuxMatch(m, p) ==
    LET exact == {e \in m : e.pattern = p}
        pre == {e \in m : IsPrefixPattern(e.pattern, p)}
    IN IF exact # {} THEN
           LET e == CHOOSE e \in exact : TRUE
           IN [handler |-> e.handler, cors |-> e.cors]
       ELSE IF pre # {} THEN
           LET e == CHOOSE e \in pre : \A o \in pre : Len(o.pattern) <= Len(e.pattern)
           IN [handler |-> e.handler, cors |-> e.cors]
       ELSE NotFound

\* ServeMux.redirectToPathSlash: p is not registered and p + "/" is.
RedirectToPathSlash(m, p) ==
    /\ \A e \in m : e.pattern # p
    /\ \E e \in m : e.pattern = Append(p, "")

\* ServeMux.Handler: CONNECT requests are not canonicalised; for every other
\* method a path that differs from its cleaned form is redirected to it.
MuxHandler(m, method, p) ==
    IF method = "CONNECT" THEN
        IF RedirectToPathSlash(m, p) THEN Redirect ELSE MuxMatch(m, p)
    ELSE IF RedirectToPathSlash(m, CleanPath(p)) THEN Redirect
    ELSE IF CleanPath(p) # p THEN Redirect
    ELSE MuxMatch(m, p)

\* common.WrapHandlerInCORS(base.APIMux)
WrapHandlerInCORS(h) == [handler |-> h, cors |-> TRUE]

\* The route table after the two http.Handle calls.
RouteTable ==
    {[pattern |-> MetricsPattern, handler |-> "telemetry", cors |-> FALSE],
     [pattern |-> Root, handler |-> WrapHandlerInCORS("api").handler,
      cors |-> WrapHandlerInCORS("api").cors]}

\* Mutant: the overlay listener is handed the wrapped API handler itself.
ListenerHandlerDirect(t) == IF t = "overlay" THEN "api" ELSE "nil"

\* The handler argument each listener is served with: nil for both, which
\* net/http replaces by the DefaultServeMux.
ListenerHandler(t) == "nil"

Serve(h, m, method, p) ==
    IF h = "nil" THEN MuxHandler(m, method, p)
    ELSE [handler |-> h, cors |-> TRUE]

NoResp == [transport |-> "none", method |-> "none", path |-> <<>>,
           handler |-> "none", cors |-> FALSE]

(***************************************************************************)
(* Initial state: a process about to run main(), over any identity file    *)
(* the environment may hold.                                               *)
(***************************************************************************)
Init ==
    /\ file \in FileStates
    /\ pc = "start"
    /\ statRes = "none"
    /\ privKey = Nil
    /\ cfgKey = Nil
    /\ log = {}
    /\ idSrc = "none"
    /\ readRes = NoRead
    /\ wrote = NoWrite
    /\ prev = NoPrev
    /\ next = 1
    /\ handle = NoHandles
    /\ received = NoReceived
    /\ assigns = NoHandles
    /\ libp2p = "unset"
    /\ mux = {}
    /\ launched = {}
    /\ cl = "idle"
    /\ ov = "idle"
    /\ exitCause = "none"
    /\ resp = NoResp

\* The process terminates (os.Exit, or an unrecovered panic): every goroutine
\* of it stops with it.
Exit(cause) ==
    /\ pc' = "exited"
    /\ exitCause' = cause
    /\ cl' = IF cl = "idle" THEN "idle" ELSE "dead"
    /\ ov' = IF ov = "idle" THEN "idle" ELSE "dead"
    /\ resp' = NoResp

(***************************************************************************)
(* Identity loading (src/unnamed/part_000)                                 *)
(***************************************************************************)
\* _, err := os.Stat(filename); if os.IsNotExist(err)
StatIdentity ==
    /\ pc = "start"
    /\ statRes' = IF file.exists THEN "ok" ELSE "NotExist"
    /\ pc' = IF file.exists THEN "read" ELSE "generate"
    /\ UNCHANGED <<file, privKey, cfgKey, log, idSrc, readRes, wrote, prev>>
    /\ UNCHANGED <<asmVars, srvVars>>

\* What ioutil.WriteFile(filename, key, 0600) leaves behind: the whole key, or
\* nothing when the file cannot be opened, or a created and truncated file
\* when the write itself fails.
WriteFileResult(f, key, outcome) ==
    CASE outcome = "ok" -> [exists |-> TRUE, content |-> key]
      [] outcome = "openfail" -> f
      [] outcome = "writefail" -> [exists |-> TRUE, content |-> Nil]

WriteOutcomes == {"ok", "openfail", "writefail"}

\* Mutant: a failed write of the new key ends the process.
CreateIdentityAbort ==
    /\ pc = "generate"
    /\ \E k \in Keys, outcome \in WriteOutcomes :
        /\ privKey' = k
        /\ file' = WriteFileResult(file, k, outcome)
        /\ wrote' = [attempted |-> TRUE, key |-> k, perm |-> FilePerm,
                     ok |-> (outcome = "ok")]
        /\ log' = IF outcome = "ok" THEN log ELSE log \cup {"write"}
        /\ IF outcome = "ok"
           THEN /\ pc' = "flags"
                /\ UNCHANGED srvVars
           ELSE /\ Exit("identity")
                /\ UNCHANGED <<mux, launched>>
    /\ idSrc' = "created"
    /\ UNCHANGED <<statRes, cfgKey, readRes, prev>>
    /\ UNCHANGED asmVars

\* The file was absent: generate a key and try to persist it; a failed write
\* is reported and startup goes on.
CreateIdentity ==
    /\ pc = "generate"
    /\ \E k \in Keys, outcome \in WriteOutcomes :
        /\ privKey' = k
        /\ file' = WriteFileResult(file, k, outcome)
        /\ wrote' = [attempted |-> TRUE, key |-> k, perm |-> FilePerm,
                     ok |-> (outcome = "ok")]
        /\ log' = IF outcome = "ok" THEN log ELSE log \cup {"write"}
    /\ idSrc' = "created"
    /\ pc' = "flags"
    /\ UNCHANGED <<statRes, cfgKey, readRes, prev>>
    /\ UNCHANGED <<asmVars, srvVars>>

\* ioutil.ReadFile(filename): the bytes of the file, or an error (the file is
\* gone by now, or may not be read).
ReadFileResults(f) ==
    {[done |-> TRUE, err |-> TRUE, data |-> Nil]} \cup
    (IF f.exists THEN {[done |-> TRUE, err |-> FALSE, data |-> f.content]} ELSE {})

\* Mutant: the error test is inverted, so a file that was read is discarded.
ReadIdentityInverted ==
    /\ pc = "read"
    /\ \E r \in ReadFileResults(file) :
        /\ readRes' = r
        /\ IF r.err
           THEN /\ privKey' = r.data
                /\ idSrc' = "read"
                /\ log' = log
           ELSE /\ \E k \in Keys : privKey' = k
                /\ idSrc' = "ephemeral"
                /\ log' = log \cup {"read"}
    /\ pc' = "flags"
    /\ UNCHANGED <<file, statRes, cfgKey, wrote, prev>>
    /\ UNCHANGED <<asmVars, srvVars>>

\* Mutant: the ephemeral key generated after a failed read is written over
\* the file.
ReadIdentityPersist ==
    /\ pc = "read"
    /\ \E r \in ReadFileResults(file) :
        /\ readRes' = r
        /\ IF ~r.err
           THEN /\ privKey' = r.data
                /\ idSrc' = "read"
                /\ log' = log
                /\ file' = file
           ELSE /\ \E k \in Keys :
                    /\ privKey' = k
                    /\ file' = [exists |-> TRUE, content |-> k]
                /\ idSrc' = "ephemeral"
                /\ log' = log \cup {"read"}
    /\ pc' = "flags"
    /\ UNCHANGED <<statRes, cfgKey, wrote, prev>>
    /\ UNCHANGED <<asmVars, srvVars>>

\* The file was there: read it; a failed read is reported and an ephemeral
\* key is generated. The bytes read are taken as the key as they are.
ReadIdentity ==
    /\ pc = "read"
    /\ \E r \in ReadFileResults(file) :
        /\ readRes' = r
        /\ IF ~r.err
           THEN /\ privKey' = r.data
                /\ idSrc' = "read"
                /\ log' = log
           ELSE /\ \E k \in Keys : privKey' = k
                /\ idSrc' = "ephemeral"
                /\ log' = log \cup {"read"}
    /\ pc' = "flags"
    /\ UNCHANGED <<file, statRes, cfgKey, wrote, prev>>
    /\ UNCHANGED <<asmVars, srvVars>>

\* flag.Parse() exits the process on a malformed command line; otherwise the
\* configuration is filled in, cfg.Matrix.PrivateKey = privKey included.
AssembleConfig ==
    /\ pc = "flags"
    /\ next = 1
    /\ \/ /\ cfgKey' = privKey
          /\ RunStep(1)
          /\ pc' = "assemble"
          /\ UNCHANGED <<libp2p, srvVars>>
       \/ /\ Exit("flags")
          /\ UNCHANGED <<cfgKey, asmVars, mux, launched>>
    /\ UNCHANGED <<file, statRes, privKey, log, idSrc, readRes, wrote, prev>>

(***************************************************************************)
(* Identity in src/main.go: a fresh key at every start, no file.           *)
(***************************************************************************)
GenerateEphemeral ==
    /\ pc = "start"
    /\ next = 1
    /\ \E k \in Keys :
        /\ privKey' = k
        /\ cfgKey' = k
    /\ idSrc' = "fresh"
    /\ RunStep(1)
    /\ pc' = "assemble"
    /\ UNCHANGED <<file, statRes, log, readRes, wrote, prev>>
    /\ UNCHANGED <<libp2p, srvVars>>

(***************************************************************************)
(* Component assembly                                                      *)
(***************************************************************************)
\* basecomponent.NewBaseDendrite(&cfg, "Monolith"): the overlay host is there
\* or is not.
NewBase ==
    /\ pc = "assemble"
    /\ next = 2
    /\ \/ /\ \E l \in {"nil", "host"} : libp2p' = l
          /\ RunStep(2)
          /\ UNCHANGED <<pc, srvVars>>
       \/ /\ Exit("assembly")
          /\ UNCHANGED <<asmVars, mux, launched>>
    /\ prev' = NoPrev
    /\ UNCHANGED <<file, idVars>>

\* One of the setup calls from CreateAccountsDB to SetupSyncAPIComponent: it
\* returns its handles, or the process dies in it.
SetupStep ==
    /\ pc = "assemble"
    /\ next \in 3..NSteps
    /\ \/ /\ RunStep(next)
          /\ pc' = IF next = NSteps THEN "routes" ELSE "assemble"
          /\ UNCHANGED <<libp2p, srvVars>>
       \/ /\ Exit("assembly")
          /\ UNCHANGED <<asmVars, mux, launched>>
    /\ UNCHANGED <<file, idVars, prev>>

(***************************************************************************)
(* Transport exposure                                                      *)
(***************************************************************************)
\* httpHandler := common.WrapHandlerInCORS(base.APIMux); the two http.Handle
RegisterRoutes ==
    /\ pc = "routes"
    /\ mux' = RouteTable
    /\ pc' = "goClearnet"
    /\ UNCHANGED <<file, idVars, prev, asmVars, launched, cl, ov, exitCause, resp>>

\* Mutant: the clearnet goroutine is started before the last setup call.
GoClearnetEarly ==
    /\ cl = "idle"
    /\ \/ pc = "goClearnet" /\ pc' = "goOverlay"
       \/ pc = "assemble" /\ next = NSteps /\ pc' = pc
    /\ cl' = "start"
    /\ launched' = launched \cup {"clearnet"}
    /\ UNCHANGED <<file, idVars, prev, asmVars, mux, ov, exitCause, resp>>

\* go func() { ... http.ListenAndServe(":8080", nil) }()
GoClearnet ==
    /\ pc = "goClearnet"
    /\ cl' = "start"
    /\ launched' = launched \cup {"clearnet"}
    /\ pc' = "goOverlay"
    /\ UNCHANGED <<file, idVars, prev, asmVars, mux, ov, exitCause, resp>>

\* Mutant: the overlay goroutine is started without the nil check.
GoOverlayUnchecked ==
    /\ pc = "goOverlay"
    /\ ov' = "start"
    /\ launched' = launched \cup {"overlay"}
    /\ pc' = "blocked"
    /\ UNCHANGED <<file, idVars, prev, asmVars, mux, cl, exitCause, resp>>

\* if base.LibP2P != nil { go func() { ... }() }; then select {}
GoOverlay ==
    /\ pc = "goOverlay"
    /\ IF libp2p = "host"
       THEN /\ ov' = "start"
            /\ launched' = launched \cup {"overlay"}
       ELSE UNCHANGED <<ov, launched>>
    /\ pc' = "blocked"
    /\ UNCHANGED <<file, idVars, prev, asmVars, mux, cl, exitCause, resp>>

(***************************************************************************)
(* The clearnet listener goroutine                                         *)
(***************************************************************************)
\* http.ListenAndServe binds and serves, or returns the bind error
ClearnetListen ==
    /\ cl = "start"
    /\ \E ok \in BOOLEAN : cl' = IF ok THEN "serving" ELSE "bindfail"
    /\ UNCHANGED <<file, pc, idVars, prev, asmVars, mux, launched, ov, exitCause, resp>>

\* the accept loop returns an error
ClearnetServeError ==
    /\ cl = "serving"
    /\ cl' = "servefail"
    /\ UNCHANGED <<file, pc, idVars, prev, asmVars, mux, launched, ov, exitCause, resp>>

\* Mutant: the error is logged and only the goroutine ends.
ClearnetLogOnly ==
    /\ cl \in {"bindfail", "servefail"}
    /\ cl' = "dead"
    /\ UNCHANGED <<file, pc, idVars, prev, asmVars, mux, launched, ov, exitCause, resp>>

\* logrus.Fatal(err): log and os.Exit(1)
ClearnetFatal ==
    /\ cl \in {"bindfail", "servefail"}
    /\ Exit(IF cl = "bindfail" THEN "clearnetBind" ELSE "clearnetServe")
    /\ UNCHANGED <<file, idVars, prev, asmVars, mux, launched>>

(***************************************************************************)
(* The overlay listener goroutine                                          *)
(***************************************************************************)
\* gostream.Listen(base.LibP2P, "/matrix"), then http.Serve(listener, nil)
OverlayListen ==
    /\ ov = "start"
    /\ \E ok \in BOOLEAN : ov' = IF ok THEN "serving" ELSE "listenfail"
    /\ UNCHANGED <<file, pc, idVars, prev, asmVars, mux, launched, cl, exitCause, resp>>

\* http.Serve returns an error
OverlayServeError ==
    /\ ov = "serving"
    /\ ov' = "servefail"
    /\ UNCHANGED <<file, pc, idVars, prev, asmVars, mux, launched, cl, exitCause, resp>>

\* panic(err) after a failed Listen: an unrecovered panic ends the process
OverlayPanic ==
    /\ ov = "listenfail"
    /\ Exit("overlayListen")
    /\ UNCHANGED <<file, idVars, prev, asmVars, mux, launched>>

\* logrus.Fatal(err) after http.Serve returned: log and os.Exit(1)
OverlayFatal ==
    /\ ov = "servefail"
    /\ Exit("overlayServe")
    /\ UNCHANGED <<file, idVars, prev, asmVars, mux, launched>>

(***************************************************************************)
(* A request arrives on a serving listener and is routed.                  *)
(***************************************************************************)
Serving(t) == IF t = "clearnet" THEN cl = "serving" ELSE ov = "serving"

HandleRequest ==
    /\ resp = NoResp
    /\ \E t \in Transports, method \in Methods, p \in Paths :
        /\ Serving(t)
        /\ LET r == Serve(ListenerHandler(t), mux, method, p)
           IN resp' = [transport |-> t, method |-> method, path |-> p,
                       handler |-> r.handler, cors |-> r.cors]
    /\ UNCHANGED <<file, pc, idVars, prev, asmVars, mux, launched, cl, ov, exitCause>>

\* The response has been written; the listener takes the next request.
CompleteRequest ==
    /\ resp # NoResp
    /\ resp' = NoResp
    /\ UNCHANGED <<file, pc, idVars, prev, asmVars, mux, launched, cl, ov, exitCause>>

(***************************************************************************)
(* The operator starts the program again after it terminated.              *)
(***************************************************************************)
Restart ==
    /\ pc = "exited"
    /\ prev' = [read |-> readRes, key |-> cfgKey, src |-> idSrc]
    /\ pc' = "start"
    /\ statRes' = "none"
    /\ privKey' = Nil
    /\ cfgKey' = Nil
    /\ log' = {}
    /\ idSrc' = "none"
    /\ readRes' = NoRead
    /\ wrote' = NoWrite
    /\ next' = 1
    /\ handle' = NoHandles
    /\ received' = NoReceived
    /\ assigns' = NoHandles
    /\ libp2p' = "unset"
    /\ mux' = {}
    /\ launched' = {}
    /\ cl' = "idle"
    /\ ov' = "idle"
    /\ exitCause' = "none"
    /\ resp' = NoResp
    /\ UNCHANGED file

(***************************************************************************)
(* The environment acts on the identity file.                              *)
(***************************************************************************)
EnvTruncate ==
    /\ file.exists
    /\ file.content # Nil
    /\ file' = [file EXCEPT !.content = Nil]
    /\ UNCHANGED procVars

EnvDelete ==
    /\ file.exists
    /\ file' = NoFile
    /\ UNCHANGED procVars

Next ==
    \/ StatIdentity
    \/ CreateIdentity
    \/ ReadIdentity
    \/ AssembleConfig
    \/ GenerateEphemeral
    \/ NewBase
    \/ SetupStep
    \/ RegisterRoutes
    \/ GoClearnet
    \/ GoOverlay
    \/ ClearnetListen
    \/ ClearnetServeError
    \/ ClearnetFatal
    \/ OverlayListen
    \/ OverlayServeError
    \/ OverlayPanic
    \/ OverlayFatal
    \/ HandleRequest
    \/ CompleteRequest
    \/ Restart
    \/ EnvTruncate
    \/ EnvDelete

Spec == Init /\ [][Next]_vars

\* A goroutine that holds a listener's error goes on to its Fatal or panic.
FairSpec ==
    /\ Init
    /\ [][Next]_vars
    /\ WF_vars(ClearnetFatal)
    /\ WF_vars(OverlayPanic)
    /\ WF_vars(OverlayFatal)

(***************************************************************************)
(* Properties                                                              *)
(***************************************************************************)
ReadIntact(r) == r.done /\ ~r.err /\ Intact(r.data)

\* C1 (identity idempotence): when this startup and the one before it both
\* read the same intact identity file, neither generated a key, the key each
\* put in cfg.Matrix.PrivateKey is the bytes of the file, and so both have the
\* same public key.
C1_IdentityIdempotence ==
    (ReadIntact(readRes) /\ ReadIntact(prev.read) /\ readRes.data = prev.read.data)
    => /\ idSrc = "read"
       /\ prev.src = "read"
       /\ privKey = readRes.data
       /\ cfgKey # Nil => cfgKey = readRes.data
       /\ prev.key # Nil => prev.key = readRes.data
       /\ (cfgKey # Nil /\ prev.key # Nil) =>
            (cfgKey = prev.key /\ Public(cfgKey) = Public(prev.key))

C1_Witness ==
    /\ ReadIntact(readRes)
    /\ ReadIntact(prev.read)
    /\ readRes.data = prev.read.data
    /\ cfgKey # Nil
    /\ prev.key # Nil

IdentityLoaded == pc \notin {"start", "generate", "read"}

\* C2 (identity degradation): a startup that finds the identity file
\* unreadable or corrupt records a warning and goes on with a freshly
\* generated key, so that after identity loading the private key always has
\* the length the signature algorithm requires.
C2_IdentityDegradation ==
    /\ (readRes.done /\ (readRes.err \/ ~Intact(readRes.data)))
        => ("read" \in log /\ idSrc = "ephemeral")
    /\ IdentityLoaded => privKey.len = PrivateKeySize

\* The step out of the os.IsNotExist branch: key generated, WriteFile called
\* with it and 0600, a failure logged, and on to the configuration.
C3_CreateStep ==
    (pc = "generate" /\ pc' # "generate")
    => /\ statRes = "NotExist"
       /\ pc' = "flags"
       /\ privKey' \in Keys
       /\ wrote' = [attempted |-> TRUE, key |-> privKey', perm |-> FilePerm,
                    ok |-> wrote'.ok]
       /\ wrote'.ok => file' = [exists |-> TRUE, content |-> privKey']
       /\ ~wrote'.ok => "write" \in log'
       /\ idSrc' = "created"

\* The configuration step of such a startup takes the generated key.
C3_ConfigStep ==
    (idSrc = "created" /\ pc = "flags" /\ pc' = "assemble")
    => (cfgKey' = privKey /\ privKey' = privKey /\ privKey = wrote.key)

\* C3 (missing identity file): a startup whose existence check found no file
\* generates a key and calls WriteFile with that key and mode 0600; whether
\* the write succeeds or not (a failure is logged) the next thing it does is
\* the configuration, where that same key becomes cfg.Matrix.PrivateKey.
C3_MissingIdentityFile == [][C3_CreateStep /\ C3_ConfigStep]_vars

C3_Witness ==
    /\ statRes = "NotExist"
    /\ wrote.attempted
    /\ ~wrote.ok
    /\ "write" \in log
    /\ cfgKey = wrote.key
    /\ cfgKey \in Keys

AssemblyComplete == next = NSteps + 1

\* C4 (assembly before serving): a listener goroutine is started, listens or
\* serves a request only after every setup step has completed; and a process
\* that died in a setup step never started a listener.
C4_AssemblyBeforeServing ==
    /\ (launched # {} \/ cl # "idle" \/ ov # "idle" \/ resp # NoResp)
        => (AssemblyComplete /\ mux = RouteTable)
    /\ exitCause = "assembly"
        => (launched = {} /\ cl = "idle" /\ ov = "idle" /\ ~AssemblyComplete)

C4_Witness ==
    /\ cl = "serving"
    /\ ov = "serving"
    /\ resp # NoResp
    /\ AssemblyComplete

\* C5 (fatal isolation): when a process with an overlay host dies of a
\* listener's bind failure, both listener goroutines had been started.
C5_FatalIsolation ==
    (libp2p = "host" /\ exitCause \in {"clearnetBind", "overlayListen"})
    => launched = {"clearnet", "overlay"}

ClearnetEnded == cl \in {"bindfail", "servefail"}
OverlayEnded == ov \in {"listenfail", "servefail"}

\* A listener goroutine that has ended does not serve again in its process.
C6_NoRestart ==
    /\ ClearnetEnded => cl' \in {cl, "dead"}
    /\ OverlayEnded => ov' \in {ov, "dead"}
    /\ cl = "dead" => cl' \in {"dead", "idle"}
    /\ ov = "dead" => ov' \in {"dead", "idle"}

\* C6 (fatal at serve): once a listener loop has ended, for whatever reason,
\* the process terminates, also while the other listener is serving and main
\* is blocked; the ended listener is never started again in that process.
C6_FatalAtServe ==
    /\ (ClearnetEnded \/ OverlayEnded) ~> (pc = "exited")
    /\ [][C6_NoRestart]_vars

C6_Witness ==
    /\ pc = "blocked"
    /\ cl = "servefail"
    /\ ov = "serving"

\* C7 as stated (listener independence): a clearnet listener that does not
\* fail itself keeps serving, whatever the overlay listener does.
C7_ListenerIndependence ==
    [][cl = "serving" => cl' \in {"serving", "servefail"}]_vars

\* C7 as amended: a serving clearnet listener stops serving only by its own
\* failure or because the process of an overlay host dies of the overlay
\* listener's failure; without an overlay host only its own failure stops it.
C7_IndependenceAmended ==
    [][(cl = "serving" /\ cl' \notin {"serving", "servefail"})
        => /\ libp2p = "host"
           /\ OverlayEnded
           /\ pc' = "exited"
           /\ exitCause' \in {"overlayListen", "overlayServe"}]_vars

C7_Witness ==
    /\ libp2p = "nil"
    /\ pc = "blocked"
    /\ cl = "serving"
    /\ ov = "idle"
    /\ resp # NoResp

\* C8 (assembly dependency order): every handle a setup step was passed had
\* been assigned by a step strictly earlier in the order, and no handle is
\* assigned twice.
C8_DependencyOrder ==
    /\ \A i \in 1..NSteps : \A r \in received[i] : r[2] >= 1 /\ r[2] < i
    /\ \A i \in 1..NSteps :
         i < next => received[i] = {<<h, handle[h]>> : h \in Uses(StepAt(i))}
    /\ \A h \in Handles : assigns[h] <= 1
    /\ \A h \in Handles : handle[h] # 0 => (assigns[h] = 1 /\ handle[h] < next)

C8_Witness ==
    /\ AssemblyComplete
    /\ received[NSteps] # {}
    /\ \A h \in Handles : handle[h] # 0

Canonical(method, p) == method = "CONNECT" \/ CleanPath(p) = p

RoutedAsStated(r) ==
    IF r.path = MetricsPattern
    THEN r.handler = "telemetry" /\ ~r.cors
    ELSE r.handler = "api" /\ r.cors

SameOnBothTransports(r) ==
    \A t \in Transports :
        LET o == Serve(ListenerHandler(t), mux, r.method, r.path)
        IN o.handler = r.handler /\ o.cors = r.cors

C10_IdentityFileFrame ==
    [][(procVars' # procVars /\ file' # file)
        => (pc = "generate" /\ statRes = "NotExist" /\ file'.exists)]_vars

C10_Witness ==
    /\ statRes = "ok"
    /\ idSrc = "ephemeral"
    /\ readRes.err
    /\ file.exists
    /\ IdentityLoaded

====
